---- MODULE Spec2Model ----
(***************************************************************************)
(* Model of the TIMOCOM integration back end: the route handlers of        *)
(* src/api/routes (bulk create, generate with auto-posting, single create, *)
(* delete-all), the API client's error conversion and the pacing timers.   *)
(* One HTTP request is in progress at a time; the external service and the *)
(* timers are the environment.                                             *)
(***************************************************************************)
EXTENDS Integers, Sequences, FiniteSets, TLC

\* ------------------------------------------------------------------------
\* Bounds of the model
\* ------------------------------------------------------------------------
MaxOffers == 3
MaxM == 2
MaxListed == 2
TickMs == 500
MaxRows == 3
MaxGenCount == 7
MaxClock == 3
MaxStamp == 2
MaxRequests == 2
TicksPerDay == 2

\* ------------------------------------------------------------------------
\* Program constants
\* ------------------------------------------------------------------------
DEFAULT_MAX_CONCURRENT == 5
GENERATE_MAX_CONCURRENT == 5
RETRY_DELAY_MS == 1000
BATCH_DELAY_MS == 1000
DELETE_DELAY_MS == 500
MAX_COUNT == 10000
DEFAULT_COUNT == 1000
DEFAULT_CUSTOMER_ID == 902245

NoTimer == 0 - 1

Min(a, b) == IF a < b THEN a ELSE b
Max(a, b) == IF a > b THEN a ELSE b

\* JavaScript Array.prototype.slice(start, end) on a 1-based TLA+ sequence
\* whose JS index j is s[j + 1].
SliceBound(len, k) == IF k < 0 THEN Max(len + k, 0) ELSE Min(k, len)

\* slice(start) without its end argument: everything from start on.
SliceToEnd(s, start, end) ==
    LET from == SliceBound(Len(s), start)
    IN  IF Len(s) <= from THEN << >>
        ELSE [k \in 1..(Len(s) - from) |-> s[from + k]]

Slice(s, start, end) ==
    LET from == SliceBound(Len(s), start)
        to   == SliceBound(Len(s), end)
    IN  IF to <= from THEN << >>
        ELSE [k \in 1..(to - from) |-> s[from + k]]

\* ------------------------------------------------------------------------
\* Error values and messages.  A message is a sequence of text fragments,
\* so that template strings are concatenations and "contains" is decidable.
\* ------------------------------------------------------------------------
StatusStr(status) ==
    CASE status = 422 -> "422"
      [] status = 503 -> "503"
      [] OTHER -> "???"

\* What the HTTP client library (axios) reports for one outbound call.
UpstreamOk == [kind |-> "ok", status |-> 200, data |-> "payload"]
UpstreamHttpError ==
    { [kind |-> "http", status |-> 422, data |-> "validation failed"] }
UpstreamNetworkError ==
    { [kind |-> "network", status |-> 0, data |-> "timeout of 15000ms exceeded"] }
UpstreamFailures == UpstreamHttpError \cup UpstreamNetworkError
UpstreamOutcomes == {UpstreamOk} \cup UpstreamFailures

\* The error object axios rejects with: it has a `response` property exactly
\* for a non-2xx answer.
AxiosError(up) ==
    [ hasResponse |-> up.kind = "http",
      status      |-> up.status,
      data        |-> up.data,
      message     |-> IF up.kind = "http"
                      THEN <<"Request failed with status code ", StatusStr(up.status)>>
                      ELSE <<up.data>> ]

\* `new Error(message)`: a plain Error, no `response` property.
NewError(msg) ==
    [ hasResponse |-> FALSE, status |-> 0, data |-> "", message |-> msg ]

\* error-handler.ts getErrorMessage: every error modelled here is an Error
\* instance, so the first branch applies.
getErrorMessage(error) == error.message

\* timocom-client.ts createFreightOffer / createVehicleSpaceOffer: the value
\* the returned promise settles with for one upstream outcome.
createOfferThrown(up) ==
    IF AxiosError(up).hasResponse
    THEN NewError(<<"TIMOCOM API ", StatusStr(up.status), ": ", up.data>>)
    ELSE NewError(<<"TIMOCOM API Error: ">> \o AxiosError(up).message)

createOffer(up, offer) ==
    IF up.kind = "ok"
    THEN [ ok |-> TRUE,
           value |-> [success |-> TRUE, data |-> [id |-> offer.ref]],
           error |-> NewError(<< >>) ]
    ELSE [ ok |-> FALSE,
           value |-> [success |-> FALSE, data |-> [id |-> 0 - 1]],
           error |-> createOfferThrown(up) ]

\* ------------------------------------------------------------------------
\* State
\* ------------------------------------------------------------------------
VARIABLES
    env,            \* which credentials process.env holds (TRUE = set)
    pc,             \* position of the request handler
    req,            \* the request being served
    offers,         \* bulk: the records to create (offers / freightOffers)
    maxConcurrent,  \* bulk: the concurrency limit in use
    i,              \* bulk: the chunk loop index
    batchPromises,  \* bulk: actualIndex of every task of the current chunk
    results,        \* bulk: per-item outcomes pushed chunk by chunk
    failed,         \* bulk: failure entries pushed by the tasks
    processed,      \* bulk: the progress counter
    taskPc,         \* per-item task position
    taskOffer,      \* per-item task: the record it submits
    taskError,      \* per-item task: errorMessage of the first attempt
    taskResult,     \* per-item task: the value its promise resolved with
    retryTimer,     \* per-item task: remaining ms of the retry delay
    handlerTimer,   \* remaining ms of the handler's own pacing delay
    issued,         \* external service: create calls received per item
    answered,       \* external service: its answers to the create calls of an item
    calls,          \* external service: calls received, by operation
    lastAnswer,     \* external service: its answer to the last single call
    delOffers,      \* delete-all: the fetched list
    delIdx,         \* delete-all: position of the offer being deleted
    delResults,     \* delete-all: per-offer outcomes
    delFailed,      \* delete-all: failure entries
    deleted,        \* delete-all: the success counter
    deleteLog,      \* external service: identifiers it was asked to delete
    response,       \* the HTTP response delivered to the caller
    genInput,       \* generator script: the CSV file and the count it was run with
    freightOffers,  \* generator: the records it returned
    files,          \* data directory: the content of every file name (Absent = no file)
    clockMs,        \* the millisecond the timestamps of backup names are taken from
    dirnameDefined, \* build: whether `__dirname` exists in the module of the csv routes
    before,         \* data directory as it was when the current request arrived
    lastUpload,     \* the last upload request: what it carried and what it met
    served          \* number of csv requests received

bulkVars == <<offers, maxConcurrent, i, batchPromises, results, failed, processed>>
taskVars == <<taskPc, taskOffer, taskError, taskResult, retryTimer>>
delVars == <<delOffers, delIdx, delResults, delFailed, deleted, deleteLog>>
genVars == <<genInput, freightOffers>>
csvVars == <<files, clockMs, dirnameDefined, before, lastUpload, served>>
vars == <<env, pc, req, bulkVars, taskVars, handlerTimer, issued, answered, calls, lastAnswer,
          delVars, response, genVars, csvVars>>

TaskIds == 0..(MaxOffers - 1)

NoOffer == [ref |-> 0 - 1, customer |-> FALSE]
NoResult == [index |-> 0 - 1, success |-> FALSE, data |-> [id |-> 0 - 1], error |-> << >>]
NoResponse == [status |-> 0, body |-> [success |-> FALSE]]
NoAnswer == [kind |-> "none", status |-> 0, data |-> ""]
NoCalls == [create |-> 0, list |-> 0, delete |-> 0]
NoConfirm == [type |-> "undefined", repr |-> ""]
NoRequest ==
    [route |-> "none", kind |-> "none", count |-> 0, autoPost |-> FALSE, csvOk |-> FALSE,
     confirm |-> NoConfirm, bodyAutoPost |-> NoConfirm, queryAutoPost |-> NoConfirm,
     body |-> NoOffer, file |-> [name |-> "none", content |-> "absent"],
     filename |-> <<"none", 0>>]
Request(route, kind) == [NoRequest EXCEPT !.route = route, !.kind = kind]

Kinds == {"freight", "vehicle"}

NoGenInput ==
    [kind |-> "none", readable |-> FALSE, rows |-> << >>, count |-> 0, at |-> 0, zone |-> 0,
     tickAt |-> 0, rnd |-> "none"]

\* The records a caller or the generator hands to the bulk procedure; a
\* record is identified by its position in the input.
MakeOffers(k) == [n \in 1..k |-> [ref |-> n - 1, customer |-> TRUE]]

\* The records a caller puts in a request body: req.body.offers of the bulk
\* route, whose first record carries a customer reference or not, and req.body
\* of the single-create routes.
CallerOffers(k, c) == [n \in 1..k |-> [ref |-> n - 1, customer |-> (n > 1) \/ c]]
CallerOffer(c) == [ref |-> 0, customer |-> c]

\* ------------------------------------------------------------------------
\* Configuration and client construction
\* ------------------------------------------------------------------------
\* common.ts requireTimocomConfig: passes on to the handler iff TRUE.
requireTimocomConfig(e) == e.username /\ e.password

\* A validation that forgets the company id.
credentialsWithoutCompanyId(e) == e.username /\ e.password

\* timocom-client.ts createTimocomClient: throws iff FALSE.
credentialsValid(e) == e.username /\ e.password /\ e.companyId

MissingCredentialsMessage ==
    <<"Failed to initialize TIMOCOM client: ", "Missing required TIMOCOM credentials">>

ConfigErrorResponse ==
    [ status |-> 500,
      body |-> [ success |-> FALSE,
                 error |-> <<"TIMOCOM configuration error: Missing credentials">>,
                 hint |-> TRUE ] ]

\* The plain catch of a route: 500 with getErrorMessage(error).
CaughtResponse(error) ==
    [ status |-> 500,
      body |-> [success |-> FALSE, error |-> getErrorMessage(error), hint |-> FALSE] ]

\* The data directory and what the csv routes know of it.
Absent == "absent"
NoName == <<"none", 0>>
NoFile == [name |-> "none", content |-> Absent]
NoUpload ==
    [type |-> "none", content |-> Absent, previous |-> Absent, backup |-> NoName, age |-> 0]

\* A file name is its stem and a timestamp: <<stem, 0>> is `stem.csv`,
\* <<stem, n>> is `stem_backup_<n>.csv`.
Stems == {"freight_offers", "vehicle_offers", "upload"}
FileNames == Stems \X (0..MaxStamp)
EmptyDirectory == [n \in FileNames |-> Absent]

\* No request is being served and nothing was generated.
ServerIdle ==
    /\ pc = "idle"
    /\ req = NoRequest
    /\ offers = << >>
    /\ maxConcurrent = 0
    /\ i = 0
    /\ batchPromises = << >>
    /\ results = << >>
    /\ failed = << >>
    /\ processed = 0
    /\ taskPc = [t \in TaskIds |-> "idle"]
    /\ taskOffer = [t \in TaskIds |-> NoOffer]
    /\ taskError = [t \in TaskIds |-> << >>]
    /\ taskResult = [t \in TaskIds |-> NoResult]
    /\ retryTimer = [t \in TaskIds |-> NoTimer]
    /\ handlerTimer = NoTimer
    /\ issued = [t \in TaskIds |-> 0]
    /\ answered = [t \in TaskIds |-> << >>]
    /\ calls = NoCalls
    /\ lastAnswer = NoAnswer
    /\ delOffers = << >>
    /\ delIdx = 0
    /\ delResults = << >>
    /\ delFailed = << >>
    /\ deleted = 0
    /\ deleteLog = << >>
    /\ response = NoResponse
    /\ genInput = NoGenInput
    /\ freightOffers = << >>

\* The csv routes have not been used.
CsvUntouched ==
    /\ files = EmptyDirectory
    /\ clockMs = 1
    /\ dirnameDefined = TRUE
    /\ before = EmptyDirectory
    /\ lastUpload = NoUpload
    /\ served = 0

Init ==
    /\ env \in [username : BOOLEAN, password : BOOLEAN, companyId : BOOLEAN]
    /\ ServerIdle
    /\ CsvUntouched

\* ------------------------------------------------------------------------
\* Bulk submission procedure
\* ------------------------------------------------------------------------
\* A filter that keeps every outcome.
FilterKeepsAll(rs) == rs

\* results.filter((r) => r.success)
FilterSuccess(rs) == SelectSeq(rs, LAMBDA r : r.success)

MapData(rs) == [k \in 1..Len(rs) |-> rs[k].data]

\* A chunk's values put in front of the list.
UnshiftAll(rs, batchResults) == batchResults \o rs

\* results.push(...batchResults)
PushAll(rs, batchResults) == rs \o batchResults

\* The aggregate built after the loop.
BulkAggregate(offs, rs, fl) ==
    [ total         |-> Len(offs),
      created       |-> Len(FilterSuccess(rs)),
      failed        |-> Len(fl),
      createdOffers |-> MapData(FilterSuccess(rs)),
      failures      |-> fl ]

\* The response sent once the loop has ended: res.json of the bulk route, or
\* the generate route's envelope around timocomResults.
BulkDoneResponse(route, offs, rs, fl) ==
    IF route = "bulk"
    THEN [ status |-> 200,
           body |-> [success |-> TRUE, results |-> BulkAggregate(offs, rs, fl)] ]
    ELSE [ status |-> 200,
           body |-> [ success |-> TRUE,
                      count |-> Len(offs),
                      autoPost |-> TRUE,
                      posted |-> TRUE,
                      timocomResults |->
                          [ total   |-> Len(offs),
                            created |-> Len(FilterSuccess(rs)),
                            failed  |-> Len(fl),
                            results |-> BulkAggregate(offs, rs, fl) ],
                      data |-> offs ] ]

\* actualIndex = i + index for every position of the batch.
ActualIndexes(start, batch) == [k \in 1..Len(batch) |-> start + (k - 1)]

InBatch(t, ids) == \E k \in 1..Len(ids) : ids[k] = t
BatchPos(t, ids) == CHOOSE k \in 1..Len(ids) : ids[k] = t

\* One evaluation of the loop head with index iv: either the batch is sliced
\* and every task of it runs up to its first await (the create call is
\* issued), or the loop ends and the response is sent.
LoopHead(iv, route, offs, m, rs, fl) ==
    IF iv < Len(offs)
    THEN LET batch == Slice(offs, iv, iv + m)
             ids   == ActualIndexes(iv, batch)
         IN  /\ i' = iv
             /\ batchPromises' = ids
             /\ taskPc' = [t \in TaskIds |-> IF InBatch(t, ids) THEN "call1" ELSE taskPc[t]]
             /\ taskOffer' = [t \in TaskIds |->
                                 IF InBatch(t, ids) THEN batch[BatchPos(t, ids)]
                                 ELSE taskOffer[t]]
             /\ taskError' = [t \in TaskIds |-> IF InBatch(t, ids) THEN << >> ELSE taskError[t]]
             /\ taskResult' = [t \in TaskIds |-> IF InBatch(t, ids) THEN NoResult ELSE taskResult[t]]
             /\ retryTimer' = [t \in TaskIds |-> IF InBatch(t, ids) THEN NoTimer ELSE retryTimer[t]]
             /\ issued' = [t \in TaskIds |-> IF InBatch(t, ids) THEN issued[t] + 1 ELSE issued[t]]
             /\ calls' = [calls EXCEPT !.create = @ + Len(ids)]
             /\ answered' = answered
             /\ handlerTimer' = NoTimer
             /\ pc' = "awaitBatch"
             /\ response' = NoResponse
    ELSE /\ i' = iv
         /\ batchPromises' = batchPromises
         /\ UNCHANGED <<taskVars, issued, answered, calls>>
         /\ handlerTimer' = NoTimer
         /\ pc' = "responded"
         /\ response' = BulkDoneResponse(route, offs, rs, fl)

\* The fresh locals of a bulk run, then the first evaluation of the loop head.
StartBulk(route, offs, m) ==
    /\ offers' = offs
    /\ maxConcurrent' = m
    /\ results' = << >>
    /\ failed' = << >>
    /\ processed' = 0
    /\ LoopHead(0, route, offs, m, << >>, << >>)
    /\ UNCHANGED <<lastAnswer, delVars>>

\* A handler that answers without entering the bulk loop.
Respond(r) ==
    /\ pc' = "responded"
    /\ response' = r
    /\ UNCHANGED <<bulkVars, taskVars, handlerTimer, issued, answered, calls, lastAnswer, delVars>>

BadRequest(msg) ==
    [status |-> 400, body |-> [success |-> FALSE, error |-> msg, hint |-> FALSE]]

\* The maxConcurrent values a caller of the bulk route supplies; an absent
\* value takes the default.
MaxConcurrentInputs == (0..MaxM) \cup {DEFAULT_MAX_CONCURRENT}

\* POST /freight-offers/bulk up to its first await; k = 0 stands for a
\* missing or empty offers array.
ReceiveBulk(k, m, c) ==
    /\ UNCHANGED <<genVars, csvVars>>
    /\ pc = "idle"
    /\ req' = [Request("bulk", "freight") EXCEPT !.count = k]
    /\ UNCHANGED env
    /\ IF ~requireTimocomConfig(env)
       THEN Respond(ConfigErrorResponse)
       ELSE IF ~credentialsValid(env)
       THEN Respond(CaughtResponse(NewError(MissingCredentialsMessage)))
       ELSE IF k = 0
       THEN Respond(BadRequest(<<"Offers array is required and must not be empty">>))
       ELSE StartBulk("bulk", CallerOffers(k, c), m)

\* The numeric count values a caller of a generate route supplies; 0 also
\* stands for an absent count.
CountInputs == ((0 - 1)..MaxOffers) \cup {MAX_COUNT + 1}

\* Number.parseInt(req.body?.count || req.query?.count || 1000, 10) for a
\* numeric count: a falsy count takes the default.
NumCount(count) == IF count = 0 THEN DEFAULT_COUNT ELSE count

GenerateResponse(count, autoPost, hasResults, tr) ==
    [ status |-> 200,
      body |-> [ success |-> TRUE, count |-> count, autoPost |-> autoPost,
                 posted |-> hasResults, timocomResults |-> tr,
                 data |-> MakeOffers(count) ] ]

\* The forms of autoPost a caller sends in the JSON body and in the query
\* string (a query value is always a string).
BodyAutoPostInputs ==
    {NoConfirm, [type |-> "boolean", repr |-> "false"], [type |-> "boolean", repr |-> "true"]}
QueryAutoPostInputs == {NoConfirm, [type |-> "string", repr |-> "false"]}

\* A flag that reads the body only.
AutoPostOfBodyOnly(body, query) == ~(body.type = "boolean" /\ body.repr = "false")

\* req.body?.autoPost !== false && req.query?.autoPost !== 'false'
AutoPostFlag(body, query) ==
    /\ ~(body.type = "boolean" /\ body.repr = "false")
    /\ ~(query.type = "string" /\ query.repr = "false")

\* POST /generate/freight and /generate/vehicle-space up to the first await
\* of the posting loop; csvOk tells whether the generator found usable rows.
ReceiveGenerate(kind, count, body, query, csvOk) ==
    /\ UNCHANGED <<genVars, csvVars>>
    /\ pc = "idle"
    /\ (AutoPostFlag(body, query) /\ csvOk /\ credentialsValid(env)
            /\ NumCount(count) <= MAX_COUNT)
          => NumCount(count) <= MaxOffers
    /\ req' = [Request("generate", kind) EXCEPT !.count = count,
                                                 !.autoPost = AutoPostFlag(body, query),
                                                 !.bodyAutoPost = body,
                                                 !.queryAutoPost = query,
                                                 !.csvOk = csvOk]
    /\ UNCHANGED env
    /\ LET numCount == NumCount(count)
           autoPost == AutoPostFlag(body, query)
       IN  IF numCount <= 0 \/ numCount > MAX_COUNT
           THEN Respond(BadRequest(
                    <<"Invalid count. Must be a positive number between 1 and 10000.">>))
           ELSE IF ~csvOk
           THEN /\ pc' = "exited"
                /\ UNCHANGED <<bulkVars, taskVars, handlerTimer, issued, answered, calls,
                               lastAnswer, delVars, response>>
           ELSE IF ~autoPost
           THEN Respond(GenerateResponse(numCount, FALSE, FALSE,
                                         [total |-> 0, created |-> 0, failed |-> 0]))
           ELSE IF ~credentialsValid(env)
           THEN Respond(GenerateResponse(numCount, TRUE, TRUE,
                                         [total |-> numCount, created |-> 0,
                                          failed |-> numCount]))
           ELSE StartBulk("generate", MakeOffers(numCount), GENERATE_MAX_CONCURRENT)

\* A retry success reported like a failure.
SuccessResultNotFlagged(t, data) ==
    [index |-> t, success |-> FALSE, data |-> data, error |-> << >>]

\* An entry that keeps only the retry's message.
FailureEntryRetryOnly(t, errorMessage, retryErrorMessage) ==
    [index |-> t, error |-> <<"Retry: ">> \o retryErrorMessage]

\* The values a per-item task returns, and the entry it pushes to `failed`.
SuccessResult(t, data) ==
    [index |-> t, success |-> TRUE, data |-> data, error |-> << >>]

\* A failure value that every task writes under the first item's index.
FailureResultOfFirstItem(t, retryErrorMessage) ==
    [index |-> 0, success |-> FALSE, data |-> [id |-> 0 - 1], error |-> retryErrorMessage]

FailureResult(t, retryErrorMessage) ==
    [index |-> t, success |-> FALSE, data |-> [id |-> 0 - 1], error |-> retryErrorMessage]

FailureEntry(t, errorMessage, retryErrorMessage) ==
    [ index |-> t,
      error |-> <<"Initial: ">> \o errorMessage \o <<", Retry: ">> \o retryErrorMessage ]

\* A timer that resolves at once.
TimerResolvesAtOnce(t) == t >= 0

\* A timer resolves its promise once its delay has fully elapsed.
TimerExpired(t) == t = 0

\* The answers the external service gives to the create calls of a bulk run.
\* The per-item task reads nothing but the message of a failed call, so one
\* failure per attempt suffices; a first attempt fails with the HTTP error
\* and a retry with the network error, which keeps the two messages of a
\* double failure apart.
BulkOutcomes(attempt) ==
    {UpstreamOk} \cup (IF attempt = "call1" THEN UpstreamHttpError ELSE UpstreamNetworkError)

\* The per-item task resumes after its create call settled.
CreateReturns(t, up) ==
    /\ UNCHANGED <<genVars, csvVars>>
    /\ taskPc[t] \in {"call1", "call2"}
    /\ up \in BulkOutcomes(taskPc[t])
    /\ LET outcome == createOffer(up, taskOffer[t])
           msg     == getErrorMessage(outcome.error)
       IN  IF outcome.ok
           THEN /\ processed' = processed + 1
                /\ taskResult' = [taskResult EXCEPT ![t] =
                                      SuccessResult(t, outcome.value.data)]
                /\ taskPc' = [taskPc EXCEPT ![t] = "done"]
                /\ taskError' = [taskError EXCEPT ![t] = << >>]
                /\ UNCHANGED <<failed, retryTimer>>
           ELSE IF taskPc[t] = "call1"
           THEN /\ taskError' = [taskError EXCEPT ![t] = msg]
                /\ retryTimer' = [retryTimer EXCEPT ![t] = RETRY_DELAY_MS]
                /\ taskPc' = [taskPc EXCEPT ![t] = "delay"]
                /\ UNCHANGED <<failed, processed, taskResult>>
           ELSE /\ failed' = Append(failed, FailureEntry(t, taskError[t], msg))
                /\ taskResult' = [taskResult EXCEPT ![t] = FailureResult(t, msg)]
                /\ taskPc' = [taskPc EXCEPT ![t] = "done"]
                /\ taskError' = [taskError EXCEPT ![t] = << >>]
                /\ UNCHANGED <<processed, retryTimer>>
    /\ answered' = [answered EXCEPT ![t] = Append(@, up)]
    /\ UNCHANGED <<env, pc, req, offers, maxConcurrent, i, batchPromises, results,
                   taskOffer, handlerTimer, issued, calls, lastAnswer, delVars, response>>

\* The retry delay of a task is over: the task issues its second create call.
RetryTimerFires(t) ==
    /\ UNCHANGED <<genVars, csvVars>>
    /\ taskPc[t] = "delay"
    /\ TimerExpired(retryTimer[t])
    /\ taskPc' = [taskPc EXCEPT ![t] = "call2"]
    /\ retryTimer' = [retryTimer EXCEPT ![t] = NoTimer]
    /\ issued' = [issued EXCEPT ![t] = @ + 1]
    /\ calls' = [calls EXCEPT !.create = @ + 1]
    /\ UNCHANGED <<env, pc, req, bulkVars, taskOffer, taskError, taskResult,
                   handlerTimer, answered, lastAnswer, delVars, response>>

\* A join that a rejected task would leave pending: it needs every task to
\* have resolved with a success.
PromiseAllSucceeded(ids, tp) ==
    \A k \in 1..Len(ids) : tp[ids[k]] = "done" /\ taskResult[ids[k]].success

\* Promise.race / Promise.any: resolves with the first task that resolved.
PromiseAnySettled(ids, tp) == \E k \in 1..Len(ids) : tp[ids[k]] = "done"

\* Promise.all(batchPromises) resolves when every task of the batch resolved
\* (no task ever rejects: both create calls sit inside try/catch).
PromiseAllSettled(ids, tp) == \A k \in 1..Len(ids) : tp[ids[k]] = "done"

\* A test that holds after every chunk, the last one included.
ChunkWasProcessed(iv, m, len) == iv < len

\* i + maxConcurrent < offers.length: another chunk follows the current one.
MoreChunksFollow(iv, m, len) == iv + m < len

\* The handler resumes after `await Promise.all(batchPromises)`.
BatchJoin ==
    /\ UNCHANGED <<genVars, csvVars>>
    /\ pc = "awaitBatch"
    /\ PromiseAllSettled(batchPromises, taskPc)
    /\ LET batchResults == [k \in 1..Len(batchPromises) |-> taskResult[batchPromises[k]]]
       IN  /\ results' = PushAll(results, batchResults)
           /\ IF MoreChunksFollow(i, maxConcurrent, Len(offers))
              THEN /\ pc' = "batchDelay"
                   /\ handlerTimer' = BATCH_DELAY_MS
                   /\ UNCHANGED <<i, batchPromises, taskVars, issued, answered, calls, response>>
              ELSE LoopHead(i + maxConcurrent, req.route, offers, maxConcurrent,
                            PushAll(results, batchResults), failed)
    /\ UNCHANGED <<env, req, offers, maxConcurrent, failed, processed, lastAnswer, delVars>>

\* The inter-batch delay is over: the loop index advances.
BatchTimerFires ==
    /\ UNCHANGED <<genVars, csvVars>>
    /\ pc = "batchDelay"
    /\ TimerExpired(handlerTimer)
    /\ LoopHead(i + maxConcurrent, req.route, offers, maxConcurrent, results, failed)
    /\ UNCHANGED <<env, req, offers, maxConcurrent, results, failed, processed,
                   lastAnswer, delVars>>

\* ------------------------------------------------------------------------
\* Single create: POST /freight-offers and POST /vehicle-space-offers
\* ------------------------------------------------------------------------
\* The route's catch block: 400 with the upstream status and body when the
\* caught error has a `response`, otherwise 500 through handleRouteError.
CreateCatchResponse(error) ==
    IF error.hasResponse
    THEN [ status |-> 400,
           body |-> [ success |-> FALSE,
                      error |-> <<"TIMOCOM API Error: ", StatusStr(error.status)>>,
                      details |-> error.data ] ]
    ELSE CaughtResponse(error)

\* The handler up to `await client.create...Offer(offerData)`.
ReceiveCreate(kind, c) ==
    /\ UNCHANGED <<genVars, csvVars>>
    /\ pc = "idle"
    /\ req' = [Request("create", kind) EXCEPT !.body = CallerOffer(c)]
    /\ UNCHANGED env
    /\ IF ~requireTimocomConfig(env)
       THEN Respond(ConfigErrorResponse)
       ELSE IF ~credentialsValid(env)
       THEN Respond(CreateCatchResponse(NewError(MissingCredentialsMessage)))
       ELSE /\ pc' = "awaitCreate"
            /\ calls' = [calls EXCEPT !.create = @ + 1]
            /\ UNCHANGED <<bulkVars, taskVars, handlerTimer, issued, answered, lastAnswer, delVars,
                           response>>

\* The external service answered the single create call.
CreateSingleReturns(up) ==
    /\ UNCHANGED <<genVars, csvVars>>
    /\ pc = "awaitCreate"
    /\ lastAnswer' = up
    /\ LET outcome == createOffer(up, req.body)
       IN  response' = IF outcome.ok
                       THEN [status |-> 201, body |-> outcome.value]
                       ELSE CreateCatchResponse(outcome.error)
    /\ pc' = "responded"
    /\ UNCHANGED <<env, req, bulkVars, taskVars, handlerTimer, issued, answered, calls, delVars>>

\* ------------------------------------------------------------------------
\* Delete-all: POST /freight-offers/delete-all and the vehicle equivalent
\* ------------------------------------------------------------------------
\* The JSON values a caller puts in `confirm`.
ConfirmInputs ==
    { NoConfirm,
      [type |-> "boolean", repr |-> "false"],
      [type |-> "boolean", repr |-> "true"],
      [type |-> "string", repr |-> "true"] }

\* A truthiness test (`!confirm`) instead of the strict comparison.
ConfirmIsTruthy(c) ==
    \/ c.type = "boolean" /\ c.repr = "true"
    \/ c.type = "string" /\ c.repr # ""

\* `confirm !== true` is FALSE only for the boolean true.
ConfirmIsTrue(c) == c.type = "boolean" /\ c.repr = "true"

\* What the list call can come back with: a payload of offers (each with an
\* `id`, a `publicOfferId`, both or neither; "" stands for a missing one), a
\* body without payload, or a failure.
ListedOfferShapes == [id : {"", "A"}, publicOfferId : {"", "P"}]
ListPayloads == UNION { [1..n -> ListedOfferShapes] : n \in 0..MaxListed }
ListAnswers ==
    { [kind |-> "ok", hasPayload |-> TRUE, payload |-> pl, data |-> ""] : pl \in ListPayloads }
    \cup { [kind |-> "ok", hasPayload |-> FALSE, payload |-> << >>, data |-> ""] }
    \cup { [kind |-> up.kind, hasPayload |-> FALSE, payload |-> << >>, data |-> up.data,
            status |-> up.status] : up \in UpstreamFailures }

\* getMy...Offers, get..., delete...: any failure is rethrown as a plain Error.
clientRethrow(up) == NewError(<<"TIMOCOM API Error: ">> \o AxiosError(up).message)

\* (offer.id) || (offer.publicOfferId)
OfferId(offer) == IF offer.id # "" THEN offer.id ELSE offer.publicOfferId

\* An aggregate whose total counts the offers that got a delete call only.
DeleteAggregateOfAttempted(offs, rs, fl, del) ==
    [ total         |-> Len(rs),
      deleted       |-> del,
      failed        |-> Len(fl),
      deletedOffers |-> [k \in 1..Len(FilterSuccess(rs)) |-> FilterSuccess(rs)[k].offerId],
      failures      |-> fl ]

DeleteAggregate(offs, rs, fl, del) ==
    [ total         |-> Len(offs),
      deleted       |-> del,
      failed        |-> Len(fl),
      deletedOffers |-> [k \in 1..Len(FilterSuccess(rs)) |-> FilterSuccess(rs)[k].offerId],
      failures      |-> fl ]

\* A test that finds an identifier on every offer.
IdentifierNeverMissing(offerId) == FALSE

\* if (!offerId) { continue }
MissingIdentifier(offerId) == offerId = ""

\* The for-of loop from position `from` on: offers without identifier are
\* skipped, the next one with an identifier gets its delete call, and after
\* the last offer the response is sent.
DeleteLoop(from, offs, rs, fl, del) ==
    LET rest == {n \in from..Len(offs) : ~MissingIdentifier(OfferId(offs[n]))}
    IN  IF rest # {}
        THEN LET n == CHOOSE x \in rest : \A y \in rest : x <= y
             IN  /\ delIdx' = n
                 /\ pc' = "awaitDelete"
                 /\ calls' = [calls EXCEPT !.delete = @ + 1]
                 /\ deleteLog' = Append(deleteLog, OfferId(offs[n]))
                 /\ response' = NoResponse
        ELSE /\ delIdx' = Len(offs) + 1
             /\ pc' = "responded"
             /\ UNCHANGED <<calls, deleteLog>>
             /\ response' = [ status |-> 200,
                              body |-> [ success |-> TRUE,
                                         results |-> DeleteAggregate(offs, rs, fl, del) ] ]

\* The handler up to `await client.getMy...Offers(...)`.
ReceiveDeleteAll(kind, confirm) ==
    /\ UNCHANGED <<genVars, csvVars>>
    /\ pc = "idle"
    /\ req' = [Request("deleteAll", kind) EXCEPT !.confirm = confirm]
    /\ UNCHANGED env
    /\ IF ~requireTimocomConfig(env)
       THEN Respond(ConfigErrorResponse)
       ELSE IF ~credentialsValid(env)
       THEN Respond(CaughtResponse(NewError(MissingCredentialsMessage)))
       ELSE IF ~ConfirmIsTrue(confirm)
       THEN Respond(BadRequest(<<"This operation requires confirmation.">>))
       ELSE /\ pc' = "awaitList"
            /\ calls' = [calls EXCEPT !.list = @ + 1]
            /\ UNCHANGED <<bulkVars, taskVars, handlerTimer, issued, answered, lastAnswer, delVars,
                           response>>

\* A test that no list passes.
LengthIsNegative(offs) == Len(offs) < 0

\* offers.length === 0
NothingToDelete(offs) == Len(offs) = 0

\* The list call settled.
ListReturns(ans) ==
    /\ UNCHANGED <<genVars, csvVars>>
    /\ pc = "awaitList"
    /\ lastAnswer' = [kind |-> ans.kind, status |-> 0, data |-> ans.data]
    /\ IF ans.kind # "ok"
       THEN /\ pc' = "responded"
            /\ response' = CaughtResponse(clientRethrow(ans))
            /\ UNCHANGED <<calls, delVars>>
       ELSE LET offs == IF ans.hasPayload THEN ans.payload ELSE << >>
            IN  IF NothingToDelete(offs)
                THEN /\ pc' = "responded"
                     /\ response' = [ status |-> 200,
                                      body |-> [ success |-> TRUE,
                                                 results |-> [total |-> 0, deleted |-> 0,
                                                              failed |-> 0] ] ]
                     /\ UNCHANGED <<calls, delVars>>
                ELSE /\ delOffers' = offs
                     /\ delResults' = << >>
                     /\ delFailed' = << >>
                     /\ deleted' = 0
                     /\ DeleteLoop(1, offs, << >>, << >>, 0)
    /\ UNCHANGED <<env, req, bulkVars, taskVars, handlerTimer, issued, answered>>

\* The delete call of the current offer settled.
DeleteReturns(up) ==
    /\ UNCHANGED <<genVars, csvVars>>
    /\ pc = "awaitDelete"
    /\ LET offerId == OfferId(delOffers[delIdx])
       IN  IF up.kind = "ok"
           THEN /\ delResults' = Append(delResults,
                       [offerId |-> offerId, success |-> TRUE, error |-> << >>])
                /\ deleted' = deleted + 1
                /\ delFailed' = delFailed
                /\ IF deleted + 1 < Len(delOffers)
                   THEN /\ pc' = "deleteDelay"
                        /\ handlerTimer' = DELETE_DELAY_MS
                        /\ UNCHANGED <<delIdx, calls, deleteLog, response>>
                   ELSE /\ handlerTimer' = NoTimer
                        /\ DeleteLoop(delIdx + 1, delOffers, delResults', delFailed,
                                      deleted + 1)
           ELSE LET errorMessage == getErrorMessage(clientRethrow(up))
                IN  /\ delFailed' = Append(delFailed,
                            [offerId |-> offerId, error |-> errorMessage])
                    /\ delResults' = Append(delResults,
                            [offerId |-> offerId, success |-> FALSE, error |-> errorMessage])
                    /\ deleted' = deleted
                    /\ handlerTimer' = NoTimer
                    /\ DeleteLoop(delIdx + 1, delOffers, delResults', delFailed', deleted)
    /\ UNCHANGED <<env, req, bulkVars, taskVars, issued, answered, lastAnswer, delOffers>>

\* The delay after a successful deletion is over.
DeleteTimerFires ==
    /\ UNCHANGED <<genVars, csvVars>>
    /\ pc = "deleteDelay"
    /\ TimerExpired(handlerTimer)
    /\ handlerTimer' = NoTimer
    /\ DeleteLoop(delIdx + 1, delOffers, delResults, delFailed, deleted)
    /\ UNCHANGED <<env, req, bulkVars, taskVars, issued, answered, lastAnswer, delOffers, delResults,
                   delFailed, deleted>>

\* ------------------------------------------------------------------------
\* The offer generators: generateFreightOffers, generateVehicleSpaceOffers
\* ------------------------------------------------------------------------
\* The CSV files a generator is run on: an unreadable file, or up to MaxRows
\* data rows, each usable (it has the columns the parser's filter requires)
\* or not.  A row is identified by its line in the file.
CsvFiles ==
    { [readable |-> FALSE, rows |-> << >>] }
    \cup { [readable |-> TRUE, rows |-> [k \in 1..n |-> [line |-> k, usable |-> f[k]]]] :
             n \in 0..MaxRows, f \in [1..MaxRows -> BOOLEAN] }

\* parseCSV: the records that pass the filter, in file order.
parseCSV(rows) == SelectSeq(rows, LAMBDA r : r.usable)

ObjectType(kind) == IF kind = "freight" THEN "freightOffer" ELSE "vehicleSpaceOffer"

\* Instants are counted in ticks of 1/TicksPerDay of a day since midnight UTC
\* of day 0; a date is a day number. The local clock of the machine is ahead
\* of UTC by `zone` ticks (behind for a negative zone).
Zones == {0 - 1, 0, 1}

\* date.toISOString().split('T')[0]: the UTC calendar date of an instant.
isoDate(t) == t \div TicksPerDay

\* The calendar date of an instant on the machine's own clock.
localDate(t, zone) == (t + zone) \div TicksPerDay

\* date.setDate(date.getDate() + 1): the same local time one local day later
\* (zones without daylight saving).
nextLocalDay(t) == t + TicksPerDay

\* new Date(t.getTime() + d * 24 * 60 * 60 * 1000)
addDays(t, d) == t + d * TicksPerDay

\* new Date('YYYY-MM-DD'): midnight UTC of that date.
parseDate(day) == day * TicksPerDay

\* new Date() while record gi is built: the run starts at run.at and its
\* clock has advanced by one tick when it reaches record run.tickAt.
Now(run, gi) == run.at + (IF gi >= run.tickAt THEN 1 ELSE 0)

\* random(seed) = frac(sin(seed) * 10000), a pure function of the seed with
\* values in [0, 1). The tables hold Math.floor(random(seed) * 30) and
\* Math.floor(random(seed) * 10) of the seeds the two generators use for the
\* indexes 0..11; "low" and "high" stand for a function that returns its least
\* and its largest possible value everywhere.
FreightDayOffsets == <<0, 8, 4, 2, 19, 19, 2, 10, 21, 5, 15, 29>>
VehicleDayOffsets == <<29, 6, 7, 28, 18, 25, 24, 10, 29, 28, 17, 15>>
VehicleCustomerShifts == <<7, 4, 1, 5, 5, 3, 8, 2, 8, 7, 0, 7>>
RandomFunctions == {"low", "high", "sin"}

Scaled(rnd, table, index, range) ==
    IF rnd = "low" THEN 0
    ELSE IF rnd = "high" THEN range - 1
    ELSE table[(index % Len(table)) + 1]

\* Math.floor(rand1 * 30) with seed index * 12345 (freight),
\* Math.floor(rand3 * 30) with seed index * 54321 + 2 (vehicle space).
DayOffset(run, index) ==
    IF run.kind = "freight"
    THEN Scaled(run.rnd, FreightDayOffsets, index, 30)
    ELSE Scaled(run.rnd, VehicleDayOffsets, index, 30)

\* Math.floor(rand2 * 10) with seed index * 54321 + 1.
CustomerShift(run, index) == Scaled(run.rnd, VehicleCustomerShifts, index, 10)

NoDate == 0 - 1

\* convertRowToFreightOffer (with createLoadingPlaces) and
\* convertRowToVehicleSpaceOffer: the record carries the data of its row, the
\* fixed customer reference and the dates computed from the clock; no
\* variation has touched it. A freight record has a LOADING place dated
\* tomorrowStr and an UNLOADING place dated dayAfterStr, a vehicle-space
\* record has loadingDate = tomorrowStr.
convertRowToOffer(run, row, index) ==
    LET tomorrow == nextLocalDay(Now(run, index))
        dayAfter == nextLocalDay(tomorrow)
    IN  [ objectType    |-> ObjectType(run.kind),
          line          |-> row.line,
          variedAt      |-> 0 - 1,
          variations    |-> 0,
          customer      |-> DEFAULT_CUSTOMER_ID,
          loadingDate   |-> isoDate(tomorrow),
          unloadingDate |-> IF run.kind = "freight" THEN isoDate(dayAfter) ELSE NoDate ]

\* generateVariation: a deep copy of the base, perturbed with the seed of
\* `index`. The freight generator dates it from the clock, the vehicle-space
\* generator from the loadingDate of the base.
generateVariation(run, baseOffer, index) ==
    IF run.kind = "freight"
    THEN LET tomorrow      == nextLocalDay(Now(run, index))
             loadingDate   == addDays(tomorrow, DayOffset(run, index))
             unloadingDate == addDays(loadingDate, 1)
         IN  [baseOffer EXCEPT !.variedAt = index,
                               !.variations = @ + 1,
                               !.customer = IF @ # 0 THEN @ ELSE DEFAULT_CUSTOMER_ID,
                               !.loadingDate = isoDate(loadingDate),
                               !.unloadingDate = isoDate(unloadingDate)]
    ELSE LET baseDate == parseDate(baseOffer.loadingDate)
             newDate  == addDays(baseDate, DayOffset(run, index))
         IN  [baseOffer EXCEPT !.variedAt = index,
                               !.variations = @ + 1,
                               !.customer = @ + CustomerShift(run, index),
                               !.loadingDate = isoDate(newDate)]

\* A cycling that always lands on the first row.
FirstRowIndex(gi, n) == 0

\* i % csvRows.length
CsvRowIndex(gi, n) == gi % n

\* A base taken from the record generated just before.
PreviousOffer(acc, csvRowIndex, gi) == acc[gi]

\* freightOffers[csvRowIndex]
BaseOffer(acc, csvRowIndex, gi) == acc[csvRowIndex + 1]

\* The for loop of the generator from index i on, acc being the records
\* pushed so far.
RECURSIVE GenerateLoop(_, _, _, _, _)
GenerateLoop(run, csvRows, count, gi, acc) ==
    IF gi >= count
    THEN acc
    ELSE LET csvRowIndex == CsvRowIndex(gi, Len(csvRows))
         IN  IF gi < Len(csvRows)
             THEN GenerateLoop(run, csvRows, count, gi + 1,
                               Append(acc, convertRowToOffer(run, csvRows[csvRowIndex + 1], gi)))
             ELSE IF csvRowIndex + 1 > Len(acc)
             THEN GenerateLoop(run, csvRows, count, gi + 1, acc)
             ELSE GenerateLoop(run, csvRows, count, gi + 1,
                               Append(acc, generateVariation(run, BaseOffer(acc, csvRowIndex, gi), gi)))

\* The generator throws (and its catch ends the process) when the file
\* cannot be read or no row is usable.
GeneratorFails(csv) == ~csv.readable \/ Len(parseCSV(csv.rows)) = 0

generateOffers(run, csv, count) == GenerateLoop(run, parseCSV(csv.rows), count, 0, << >>)

\* The circumstances of a run: which generator, the instant it starts at, the
\* zone of the machine, the record at which its clock has moved on (a value
\* not below the count: not during the run) and the pseudo-random function.
Runs(count) ==
    [ kind   : Kinds,
      at     : 0..MaxClock,
      zone   : Zones,
      tickAt : 1..(IF count > 1 THEN count ELSE 1),
      rnd    : RandomFunctions ]

\* The generator script run from the command line with a numeric count.
RunGenerator(run, csv, count) ==
    /\ pc = "idle"
    /\ genInput' = [kind |-> run.kind, readable |-> csv.readable, rows |-> csv.rows,
                    count |-> count, at |-> run.at, zone |-> run.zone,
                    tickAt |-> run.tickAt, rnd |-> run.rnd]
    /\ IF count <= 0 \/ GeneratorFails(csv)
       THEN /\ pc' = "exited"
            /\ freightOffers' = << >>
       ELSE /\ pc' = "generated"
            /\ freightOffers' = generateOffers(run, csv, count)
    /\ UNCHANGED <<env, req, bulkVars, taskVars, handlerTimer, issued, answered, calls,
                   lastAnswer, delVars, response, csvVars>>

\* ------------------------------------------------------------------------
\* CSV management: upload and restore
\* ------------------------------------------------------------------------
\* What an uploaded file can hold: a freight CSV (A, B), a vehicle-space CSV
\* (V), or a single line.
Contents == {"A", "B", "V", "short"}

\* content.split('\n').length >= 2
AtLeastTwoLines(content) == content # "short"

\* Every required column of the type occurs in the header line.
HasRequiredHeaders(content, type) ==
    IF type = "freight" THEN content \in {"A", "B"} ELSE content = "V"

UploadTypes == {"freight", "vehicle", "trucks"}

\* standardFilenames[type]
StandardFilename(type) == IF type = "freight" THEN "freight_offers" ELSE "vehicle_offers"

Canonical(type) == <<StandardFilename(type), 0>>

\* name.replace('.csv', `_backup_${timestamp}.csv`)
BackupName(stem, timestamp) == <<stem, timestamp>>

\* fs.copyFileSync(from, to)
CopyFile(dir, from, to) == [dir EXCEPT ![to] = dir[from]]

\* fs.unlinkSync(name)
Unlink(dir, name) == [dir EXCEPT ![name] = Absent]

\* multer's diskStorage: when data/<originalname> exists it is copied to a
\* backup name, then the upload is written under its original name.
MulterStores(dir, file, timestamp) ==
    LET original == <<file.name, 0>>
        backedUp == IF dir[original] # Absent
                    THEN CopyFile(dir, original, BackupName(file.name, timestamp))
                    ELSE dir
    IN  [backedUp EXCEPT ![original] = file.content]

UploadDone(status, dir, backup, file, type, timestamp) ==
    /\ files' = dir
    /\ clockMs' = timestamp
    /\ lastUpload' = [ type     |-> type,
                       content  |-> file.content,
                       previous |-> IF type \in Kinds THEN files[Canonical(type)] ELSE Absent,
                       backup   |-> backup,
                       age      |-> 0 ]
    /\ response' = IF status = 200
                   THEN [status |-> 200, body |-> [success |-> TRUE]]
                   ELSE IF status = 400
                   THEN BadRequest(<<"upload rejected">>)
                   ELSE CaughtResponse(NewError(<<"Upload failed">>))

\* POST /csv/upload/:type with a file, multer's storage included. The
\* timestamp of the route's backup is taken at or after the one multer took.
Upload(type, file, timestamp) ==
    /\ pc = "idle"
    /\ served < MaxRequests
    /\ timestamp \in {clockMs, clockMs + 1}
    /\ timestamp <= MaxStamp
    /\ req' = [Request("upload", type) EXCEPT !.file = file]
    /\ pc' = "responded"
    /\ served' = served + 1
    /\ before' = files
    /\ LET uploaded == <<file.name, 0>>
           stored   == MulterStores(files, file, clockMs)
       IN  IF type \notin Kinds
           THEN UploadDone(400, stored, NoName, file, type, timestamp)
           ELSE IF ~AtLeastTwoLines(file.content) \/ ~HasRequiredHeaders(file.content, type)
           THEN UploadDone(400, Unlink(stored, uploaded), NoName, file, type, timestamp)
           ELSE IF ~dirnameDefined
           THEN \* ReferenceError: __dirname is not defined
                UploadDone(500, Unlink(stored, uploaded), NoName, file, type, timestamp)
           ELSE LET destination == Canonical(type)
                    exists      == stored[destination] # Absent
                    backupName  == BackupName(StandardFilename(type), timestamp)
                    kept        == IF exists THEN CopyFile(stored, destination, backupName)
                                   ELSE stored
                    backup      == IF exists THEN backupName ELSE NoName
                IN  IF exists
                    THEN \* fs.moveSync without overwrite throws: the destination
                         \* exists, or it is the uploaded file itself.
                         UploadDone(500, Unlink(kept, uploaded), backup, file, type, timestamp)
                    ELSE UploadDone(200,
                                    [kept EXCEPT ![destination] = file.content,
                                                 ![uploaded] = Absent],
                                    backup, file, type, timestamp)
    /\ UNCHANGED <<env, bulkVars, taskVars, handlerTimer, issued, answered, calls, lastAnswer,
                   delVars, genVars, dirnameDefined>>

\* POST /csv/upload/:type without a file part.
UploadWithoutFile(type) ==
    /\ pc = "idle"
    /\ served < MaxRequests
    /\ req' = Request("upload", type)
    /\ pc' = "responded"
    /\ served' = served + 1
    /\ before' = files
    /\ response' = BadRequest(<<"No file uploaded">>)
    /\ UNCHANGED <<env, bulkVars, taskVars, handlerTimer, issued, answered, calls, lastAnswer,
                   delVars, genVars, files, clockMs, dirnameDefined, lastUpload>>

\* filename.includes('_backup_') && filename.endsWith('.csv')
IsBackupName(filename) == filename[2] >= 1

\* filename.includes('freight') ? 'freight' : 'vehicle'
TypeOfBackup(filename) == IF filename[1] = "freight_offers" THEN "freight" ELSE "vehicle"

\* The two copies of the restore route: the current canonical file into a new
\* backup, then the named backup onto the canonical file.
RestoreCopies(dir, filename, timestamp) ==
    LET target == Canonical(TypeOfBackup(filename))
        saved  == IF dir[target] # Absent
                  THEN CopyFile(dir, target,
                                BackupName(StandardFilename(TypeOfBackup(filename)), timestamp))
                  ELSE dir
    IN  CopyFile(saved, filename, target)

\* POST /csv/restore/:filename
Restore(filename) ==
    /\ pc = "idle"
    /\ served < MaxRequests
    /\ req' = [Request("restore", "none") EXCEPT !.filename = filename]
    /\ pc' = "responded"
    /\ served' = served + 1
    /\ before' = files
    /\ lastUpload' = IF lastUpload.type = "none" THEN lastUpload
                     ELSE [lastUpload EXCEPT !.age = Min(@ + 1, 2)]
    /\ IF ~IsBackupName(filename)
       THEN /\ response' = BadRequest(<<"Invalid backup filename">>)
            /\ UNCHANGED files
       ELSE IF files[filename] = Absent
       THEN /\ response' = [ status |-> 404,
                             body |-> [success |-> FALSE, error |-> <<"Backup file not found">>,
                                       hint |-> FALSE] ]
            /\ UNCHANGED files
       ELSE /\ files' = RestoreCopies(files, filename, clockMs)
            /\ response' = [status |-> 200, body |-> [success |-> TRUE]]
    /\ UNCHANGED <<env, bulkVars, taskVars, handlerTimer, issued, answered, calls, lastAnswer,
                   delVars, genVars, clockMs, dirnameDefined>>

\* A millisecond passes between two requests.
ClockAdvances ==
    /\ pc = "idle"
    /\ clockMs < MaxStamp
    /\ clockMs' = clockMs + 1
    /\ UNCHANGED <<env, pc, req, bulkVars, taskVars, handlerTimer, issued, answered, calls,
                   lastAnswer, delVars, response, genVars, files, dirnameDefined, before,
                   lastUpload, served>>

\* Time passes: every running timer gets TickMs closer to its expiry.
Elapse(t) == IF t = NoTimer THEN NoTimer ELSE IF t > TickMs THEN t - TickMs ELSE 0

Tick ==
    /\ UNCHANGED <<genVars, csvVars>>
    /\ \/ handlerTimer > 0
       \/ \E t \in TaskIds : retryTimer[t] > 0
    /\ handlerTimer' = Elapse(handlerTimer)
    /\ retryTimer' = [t \in TaskIds |-> Elapse(retryTimer[t])]
    /\ UNCHANGED <<env, pc, req, bulkVars, taskPc, taskOffer, taskError, taskResult,
                   issued, answered, calls, lastAnswer, delVars, response>>

\* The handler has returned; its locals are gone and the next request starts
\* from a clean slate.
HandlerReturns ==
    /\ UNCHANGED <<genVars, csvVars>>
    /\ pc = "responded"
    /\ pc' = "idle"
    /\ req' = NoRequest
    /\ offers' = << >>
    /\ maxConcurrent' = 0
    /\ i' = 0
    /\ batchPromises' = << >>
    /\ results' = << >>
    /\ failed' = << >>
    /\ processed' = 0
    /\ taskPc' = [t \in TaskIds |-> "idle"]
    /\ taskOffer' = [t \in TaskIds |-> NoOffer]
    /\ taskError' = [t \in TaskIds |-> << >>]
    /\ taskResult' = [t \in TaskIds |-> NoResult]
    /\ retryTimer' = [t \in TaskIds |-> NoTimer]
    /\ handlerTimer' = NoTimer
    /\ issued' = [t \in TaskIds |-> 0]
    /\ answered' = [t \in TaskIds |-> << >>]
    /\ calls' = NoCalls
    /\ lastAnswer' = NoAnswer
    /\ delOffers' = << >>
    /\ delIdx' = 0
    /\ delResults' = << >>
    /\ delFailed' = << >>
    /\ deleted' = 0
    /\ deleteLog' = << >>
    /\ response' = NoResponse
    /\ UNCHANGED env

Next ==
    \/ \E k \in 0..MaxOffers, m \in MaxConcurrentInputs, c \in BOOLEAN : ReceiveBulk(k, m, c)
    \/ \E kind \in Kinds, count \in CountInputs, body \in BodyAutoPostInputs,
          query \in QueryAutoPostInputs, csvOk \in BOOLEAN :
          ReceiveGenerate(kind, count, body, query, csvOk)
    \/ \E t \in TaskIds, up \in UpstreamOutcomes : CreateReturns(t, up)
    \/ \E t \in TaskIds : RetryTimerFires(t)
    \/ BatchJoin
    \/ BatchTimerFires
    \/ \E kind \in Kinds, c \in BOOLEAN : ReceiveCreate(kind, c)
    \/ \E up \in UpstreamOutcomes : CreateSingleReturns(up)
    \/ \E kind \in Kinds, confirm \in ConfirmInputs : ReceiveDeleteAll(kind, confirm)
    \/ \E ans \in ListAnswers : ListReturns(ans)
    \/ \E up \in UpstreamOutcomes : DeleteReturns(up)
    \/ DeleteTimerFires
    \/ Tick
    \/ HandlerReturns

Spec == Init /\ [][Next]_vars

\* The generator scripts on their own: one run from the command line.
GenNext ==
    /\ pc = "idle"
    /\ \E csv \in CsvFiles, count \in 0..MaxGenCount :
           \E run \in Runs(count) : RunGenerator(run, csv, count)

\* The csv routes on their own. The server starts with or without each
\* canonical file, and the build either defines `__dirname` in the module of
\* the routes (CommonJS output) or does not (ES module output).
UploadedFiles == [name : Stems, content : Contents]

CsvInit ==
    /\ env = [username |-> TRUE, password |-> TRUE, companyId |-> TRUE]
    /\ ServerIdle
    /\ \E f \in {Absent, "A"}, v \in {Absent, "V"} :
          files = [EmptyDirectory EXCEPT ![Canonical("freight")] = f,
                                         ![Canonical("vehicle")] = v]
    /\ clockMs = 1
    /\ dirnameDefined \in BOOLEAN
    /\ before = files
    /\ lastUpload = NoUpload
    /\ served = 0

CsvNext ==
    \/ \E type \in UploadTypes, file \in UploadedFiles, timestamp \in 1..MaxStamp :
          Upload(type, file, timestamp)
    \/ \E type \in UploadTypes : UploadWithoutFile(type)
    \/ \E filename \in FileNames : Restore(filename)
    \/ ClockAdvances
    \/ HandlerReturns

CsvSpec == CsvInit /\ [][CsvNext]_vars

\* The scripts read no credential: the environment is left out of the runs.
GenInit == Init /\ env = [username |-> TRUE, password |-> TRUE, companyId |-> TRUE]

GenSpec == GenInit /\ [][GenNext]_vars

\* ------------------------------------------------------------------------
\* Properties of the bulk submission procedure
\* ------------------------------------------------------------------------
\* The loop of a bulk run has ended and its response was sent.
BulkFinished == pc = "responded" /\ offers # << >>

\* The aggregate the caller received.
BulkResult ==
    IF req.route = "bulk" THEN response.body.results
    ELSE response.body.timocomResults.results

Items == 0..(Len(offers) - 1)

\* Number of entries of a sequence of records with the given index.
CountIndex(sq, t) == Cardinality({k \in 1..Len(sq) : sq[k].index = t})

SuccessesOf(t) == Cardinality({k \in 1..Len(results) : results[k].index = t /\ results[k].success})

FirstFailed(t) == Len(answered[t]) >= 1 /\ answered[t][1].kind # "ok"
RetryFailed(t) == Len(answered[t]) >= 2 /\ answered[t][2].kind # "ok"
RetrySucceeded(t) == Len(answered[t]) >= 2 /\ answered[t][2].kind = "ok"

\* C1: a finished bulk run with a positive concurrency limit reports
\* total = K and created + failed = K, and every input position is counted
\* exactly once, as a success or as a failure.
C1_AggregateAccountsForEveryItem ==
    (BulkFinished /\ maxConcurrent > 0) =>
        /\ BulkResult.total = Len(offers)
        /\ BulkResult.created + BulkResult.failed = Len(offers)
        /\ Len(BulkResult.createdOffers) = BulkResult.created
        /\ Len(BulkResult.failures) = BulkResult.failed
        /\ \A t \in Items : SuccessesOf(t) + CountIndex(BulkResult.failures, t) = 1

C1_Witness ==
    /\ BulkFinished
    /\ Len(offers) = MaxOffers
    /\ maxConcurrent = 2
    /\ BulkResult.created >= 1
    /\ BulkResult.failed >= 1
    /\ \E t \in Items : RetrySucceeded(t)

\* Create calls issued and not yet returned.
InFlight == {t \in TaskIds : taskPc[t] \in {"call1", "call2"}}

BulkRunning == req.route \in {"bulk", "generate"} /\ offers # << >>

\* C2: while a bulk run with concurrency limit M > 0 is in progress, at most
\* M create calls (first attempts and retries together) are in flight.
C2_InFlightAtMostM ==
    (BulkRunning /\ maxConcurrent > 0) => Cardinality(InFlight) <= maxConcurrent

C2_Witness ==
    /\ BulkRunning
    /\ maxConcurrent = 2
    /\ Len(offers) = MaxOffers
    /\ Cardinality(InFlight) = 2
    /\ \E t \in InFlight : taskPc[t] = "call2"
    /\ \E t \in InFlight : taskPc[t] = "call1"

\* The chunk an input position belongs to.
ChunkOf(t) == t \div maxConcurrent

\* C3: once any create call was issued for an item of a later chunk, every
\* task of every earlier chunk has finished (none is in its create call, in
\* its retry delay or in its retry).
C3_ChunksNeverOverlap ==
    (BulkRunning /\ maxConcurrent > 0) =>
        \A t \in Items, u \in Items :
            (ChunkOf(u) < ChunkOf(t) /\ issued[t] > 0) => taskPc[u] = "done"

C3_Witness ==
    /\ BulkRunning
    /\ maxConcurrent = 2
    /\ Len(offers) = MaxOffers
    /\ issued[2] = 1
    /\ taskPc[2] = "call1"
    /\ issued[0] = 2
    /\ issued[1] = 2

\* C4: an item gets one create call when its first attempt succeeds and two
\* when it fails, never a third; the second call is issued only from the
\* retry delay, after the full delay has elapsed.
C4_CallsPerItem ==
    \A t \in TaskIds :
        /\ issued[t] <= 2
        /\ (BulkRunning /\ taskPc[t] = "done" /\ ~FirstFailed(t)) => issued[t] = 1
        /\ (BulkRunning /\ taskPc[t] = "done" /\ FirstFailed(t)) => issued[t] = 2
        /\ (BulkRunning /\ issued[t] = 2) => FirstFailed(t)

C4_RetryAfterDelay ==
    \A t \in TaskIds :
        (issued[t] = 1 /\ issued'[t] = 2) =>
            (taskPc[t] = "delay" /\ retryTimer[t] = 0 /\ FirstFailed(t))

C4_OneCallOrTwoAfterDelay == [](C4_CallsPerItem) /\ [][C4_RetryAfterDelay]_vars

C4_Witness ==
    /\ BulkFinished
    /\ Len(offers) = MaxOffers
    /\ \E t \in Items : issued[t] = 1
    /\ \E t \in Items : issued[t] = 2 /\ RetrySucceeded(t)
    /\ \E t \in Items : issued[t] = 2 /\ RetryFailed(t)

\* C5: an item whose first create call failed and whose retry succeeded is
\* counted in created, its returned data is in createdOffers and failures
\* has no entry with its index.
C5_RetrySuccessIsSuccess ==
    BulkFinished =>
        \A t \in Items :
            (FirstFailed(t) /\ RetrySucceeded(t)) =>
                /\ SuccessesOf(t) = 1
                /\ BulkResult.created >= 1
                /\ \E k \in 1..Len(BulkResult.createdOffers) :
                       BulkResult.createdOffers[k] = createOffer(answered[t][2], offers[t + 1]).value.data
                /\ CountIndex(BulkResult.failures, t) = 0
                /\ BulkResult.created =
                       Cardinality({u \in Items : answered[u][Len(answered[u])].kind = "ok"})

C5_Witness ==
    /\ BulkFinished
    /\ \E t \in Items : FirstFailed(t) /\ RetrySucceeded(t)
    /\ BulkResult.failed >= 1

\* needle occurs in hay as a contiguous run of fragments.
Contains(hay, needle) ==
    \E off \in 0..(Len(hay) - Len(needle)) :
        SubSeq(hay, off + 1, off + Len(needle)) = needle

\* The message the route reads from the error of a failed create call.
AttemptMessage(up) == getErrorMessage(createOfferThrown(up))

\* C6: an item whose first create call and retry both failed has exactly one
\* entry in failures; the entry carries the item's input position and its
\* error text contains the message of each attempt.
C6_DoubleFailureOneEntry ==
    BulkFinished =>
        \A t \in Items :
            (FirstFailed(t) /\ RetryFailed(t)) =>
                /\ CountIndex(BulkResult.failures, t) = 1
                /\ \A k \in 1..Len(BulkResult.failures) :
                       BulkResult.failures[k].index = t =>
                           /\ offers[BulkResult.failures[k].index + 1] = taskOffer[t]
                           /\ Contains(BulkResult.failures[k].error,
                                       AttemptMessage(answered[t][1]))
                           /\ Contains(BulkResult.failures[k].error,
                                       AttemptMessage(answered[t][2]))

C6_Witness ==
    /\ BulkFinished
    /\ maxConcurrent = 2
    /\ \E t \in Items :
          /\ t >= 2
          /\ FirstFailed(t)
          /\ RetryFailed(t)
          /\ answered[t][1].kind # answered[t][2].kind

\* The environment the bulk procedure needs to make progress: every create
\* call returns, time passes and expired timers fire, and resolved promises
\* resume their awaiters.
Fairness ==
    /\ \A t \in TaskIds : WF_vars(\E up \in UpstreamOutcomes : CreateReturns(t, up))
    /\ \A t \in TaskIds : WF_vars(RetryTimerFires(t))
    /\ WF_vars(BatchJoin)
    /\ WF_vars(BatchTimerFires)
    /\ WF_vars(Tick)

FairSpec == Spec /\ Fairness

BulkDelivered ==
    /\ BulkFinished
    /\ response.status = 200
    /\ response.body.success
    /\ BulkResult.total = Len(offers)
    /\ \A t \in Items : issued[t] >= 1 /\ taskPc[t] = "done"

\* C7: with create calls that return and timers that fire, a bulk run that
\* started with a positive concurrency limit eventually delivers its
\* aggregate, with status 200 and every item attempted, whatever the items'
\* outcomes.
C7_BulkEventuallyDelivers ==
    (BulkRunning /\ pc = "awaitBatch" /\ maxConcurrent > 0) ~> BulkDelivered

C7_Witness ==
    /\ BulkDelivered
    /\ maxConcurrent = 1
    /\ Len(offers) = MaxOffers
    /\ \A t \in Items : RetryFailed(t)

\* ------------------------------------------------------------------------
\* Properties of the error paths
\* ------------------------------------------------------------------------
AnyCredentialMissing == ~env.username \/ ~env.password \/ ~env.companyId

\* The request reached (or would reach) client construction for bulk posting.
NeedsPostingClient ==
    \/ req.route = "bulk"
    \/ /\ req.route = "generate"
       /\ req.autoPost
       /\ NumCount(req.count) >= 1
       /\ NumCount(req.count) <= MAX_COUNT
       /\ req.csvOk

BooleanTrue == [type |-> "boolean", repr |-> "true"]

\* C9 as stated: delete-all without confirm === true issues no list call and
\* no delete call and is answered with 400.
C9_UnconfirmedDeleteAllIs400 ==
    (pc = "responded" /\ req.route = "deleteAll" /\ req.confirm # BooleanTrue) =>
        (response.status = 400 /\ calls.list = 0 /\ calls.delete = 0)

\* C9 amended: delete-all without confirm === true issues no list call and
\* no delete call; it is answered with 400 when all three credentials are
\* configured and with 500 when one is missing.
C9_UnconfirmedDeleteAllCallsNothing ==
    (req.route = "deleteAll" /\ req.confirm # BooleanTrue) =>
        /\ pc = "responded"
        /\ calls.list = 0
        /\ calls.delete = 0
        /\ deleteLog = << >>
        /\ response.status = IF AnyCredentialMissing THEN 500 ELSE 400

C9_Witness ==
    /\ pc = "responded"
    /\ req.route = "deleteAll"
    /\ req.confirm = [type |-> "string", repr |-> "true"]
    /\ ~AnyCredentialMissing
    /\ response.status = 400

\* C10: when the external service answers a single create call with a
\* non-2xx response, the route answers 400 carrying the upstream status and
\* body.
C10_UpstreamErrorIs400 ==
    (pc = "responded" /\ req.route = "create" /\ lastAnswer.kind = "http") =>
        /\ response.status = 400
        /\ response.body.details = lastAnswer.data

\* ------------------------------------------------------------------------
\* Properties of the generate routes
\* ------------------------------------------------------------------------
\* A generate request whose count passed the validation.
GenerateAccepted ==
    /\ req.route = "generate"
    /\ NumCount(req.count) >= 1
    /\ NumCount(req.count) <= MAX_COUNT

\* C11: a generate request that finds the CSV unreadable or without usable
\* rows is answered with an error response, and the server goes on serving.
C11_CsvFailureFailsOnlyTheCall ==
    (GenerateAccepted /\ ~req.csvOk) =>
        (pc = "responded" /\ response.status >= 400)

\* C12: a generate request whose count is not within [1, 10000] is answered
\* with 400, and no create call is issued for it.
C12_InvalidCountIs400 ==
    (req.route = "generate" /\ req.csvOk /\ (req.count < 1 \/ req.count > MAX_COUNT)) =>
        (pc = "responded" /\ response.status = 400 /\ calls.create = 0)

\* ------------------------------------------------------------------------
\* Properties of delete-all
\* ------------------------------------------------------------------------
\* The delete loop of a delete-all run has ended and its response was sent.
DeleteFinished == req.route = "deleteAll" /\ pc = "responded" /\ delOffers # << >>

\* The listed offers that carry neither an id nor a publicOfferId.
WithoutIdentifier ==
    {n \in 1..Len(delOffers) : delOffers[n].id = "" /\ delOffers[n].publicOfferId = ""}

\* C13: the aggregate of a delete-all run has total equal to the length of
\* the fetched list, total = deleted + failed + skipped, every offer with an
\* identifier got exactly one delete call, and deletedOffers and failures
\* have lengths deleted and failed.
C13_DeleteAllAccountsForEveryOffer ==
    DeleteFinished =>
        LET r == response.body.results
        IN  /\ r.total = Len(delOffers)
            /\ r.total = r.deleted + r.failed + Cardinality(WithoutIdentifier)
            /\ Len(deleteLog) = r.deleted + r.failed
            /\ Len(r.deletedOffers) = r.deleted
            /\ Len(r.failures) = r.failed

C13_Witness ==
    /\ DeleteFinished
    /\ Len(delOffers) = 2
    /\ Cardinality(WithoutIdentifier) = 1
    /\ response.body.results.failed = 1

\* A step that issues a delete call after an earlier delete call of the run.
NextDeleteIssued == calls.delete >= 1 /\ calls'.delete = calls.delete + 1

\* C14: delete-all issues a further delete call only when the 0.5 s delay
\* that followed the previous call has fully elapsed, whether that call
\* succeeded or failed, and waits no delay between the last delete call and
\* the response.
C14_DeleteCallsAreSpacedByTheDelay ==
    [][ /\ NextDeleteIssued => (pc = "deleteDelay" /\ handlerTimer = 0)
        /\ (req.route = "deleteAll" /\ pc' = "responded") => pc # "deleteDelay" ]_vars

\* A confirmed delete-all whose list call came back with no offers.
ListedNothing ==
    /\ req.route = "deleteAll"
    /\ pc = "responded"
    /\ calls.list = 1
    /\ lastAnswer.kind = "ok"
    /\ delOffers = << >>

\* C15: a confirmed delete-all whose list call returns an empty or missing
\* payload answers 200 with results {total: 0, deleted: 0, failed: 0} and
\* issues no delete call.
C15_EmptyListDeletesNothing ==
    ListedNothing =>
        /\ response.status = 200
        /\ response.body.results = [total |-> 0, deleted |-> 0, failed |-> 0]
        /\ calls.delete = 0
        /\ deleteLog = << >>

C15_Witness ==
    /\ ListedNothing
    /\ req.confirm = BooleanTrue
    /\ response.body.success

\* ------------------------------------------------------------------------
\* Pacing and task isolation of the bulk submission procedure
\* ------------------------------------------------------------------------
\* C16: when a chunk has drained, the handler waits the inter-chunk delay
\* exactly if another chunk follows, whatever the outcomes of the chunk's
\* items, and answers at once after the last chunk; the next chunk starts
\* only when that delay has fully elapsed; a run with K <= M never waits.
C16_DelayExactlyBetweenChunks ==
    [][ /\ (pc = "awaitBatch" /\ pc' # "awaitBatch") =>
               IF i + maxConcurrent < Len(offers)
               THEN pc' = "batchDelay" /\ handlerTimer' = BATCH_DELAY_MS
               ELSE pc' = "responded"
        /\ (pc = "awaitBatch" /\ pc' = "awaitBatch") =>
               (i' = i /\ batchPromises' = batchPromises)
        /\ (pc = "batchDelay" /\ pc' # "batchDelay") =>
               (pc' = "awaitBatch" /\ handlerTimer = 0 /\ i' = i + maxConcurrent)
        /\ (pc' = "batchDelay") => Len(offers') > maxConcurrent' ]_vars

C16_Witness ==
    /\ pc = "batchDelay"
    /\ handlerTimer = 0
    /\ maxConcurrent = 2
    /\ Len(offers) = 3
    /\ RetryFailed(0)
    /\ Len(answered[1]) = 1
    /\ ~FirstFailed(1)

\* The per-item task of item t takes a step.
TaskMoves(t) == taskPc[t] \in {"call1", "delay", "call2"} /\ taskPc'[t] # taskPc[t]

\* Nothing that belongs to another task changes in a step of task t.
OthersUntouched(t) ==
    \A u \in TaskIds \ {t} :
        /\ taskPc'[u] = taskPc[u]
        /\ taskOffer'[u] = taskOffer[u]
        /\ taskError'[u] = taskError[u]
        /\ taskResult'[u] = taskResult[u]
        /\ retryTimer'[u] = retryTimer[u]

\* C17 as stated: a step of a per-item task writes nothing that the other
\* tasks of the run can read or write.
C17_TasksShareNoMutableState ==
    [][ \A t \in TaskIds :
            TaskMoves(t) => (OthersUntouched(t) /\ failed' = failed /\ processed' = processed)
      ]_vars

DoneWith(flag) == {t \in Items : taskPc[t] = "done" /\ taskResult[t].success = flag}

\* C17 amended: the tasks of a run share the `processed` counter and the
\* `failed` list and nothing else.  A step of task t leaves every other
\* task's record and result alone, reads its own record only, writes its
\* result under its own index, adds at most one to `processed` and appends
\* at most one entry, of its own index, to `failed`; and no update is lost:
\* `processed` counts the tasks that ended in success and `failed` holds one
\* entry per task that ended in failure.
C17_TasksShareOnlyCounterAndFailureList ==
    /\ [](BulkRunning =>
            /\ processed = Cardinality(DoneWith(TRUE))
            /\ Len(failed) = Cardinality(DoneWith(FALSE))
            /\ \A t \in Items : taskPc[t] # "idle" => taskOffer[t] = offers[t + 1])
    /\ [][ \A t \in TaskIds :
               TaskMoves(t) =>
                   /\ OthersUntouched(t)
                   /\ taskOffer'[t] = taskOffer[t]
                   /\ offers' = offers
                   /\ results' = results
                   /\ processed' \in {processed, processed + 1}
                   /\ \/ failed' = failed
                      \/ /\ Len(failed') = Len(failed) + 1
                         /\ SubSeq(failed', 1, Len(failed)) = failed
                         /\ failed'[Len(failed')].index = t
                   /\ taskPc'[t] = "done" => taskResult'[t].index = t
         ]_vars

C17_Witness ==
    /\ BulkRunning
    /\ pc = "awaitBatch"
    /\ Len(batchPromises) >= 2
    /\ processed >= 1
    /\ Len(failed) >= 1
    /\ \E t \in Items : InBatch(t, batchPromises) /\ taskPc[t] \in {"call1", "delay", "call2"}

\* ------------------------------------------------------------------------
\* Configuration errors on the /api/timocom routes
\* ------------------------------------------------------------------------
TimocomRoutes == {"bulk", "create", "deleteAll"}

GeneratorRan == pc = "generated"

\* The usable rows of the file the generator read, in file order, and the
\* requested count.
UsableRows == parseCSV(genInput.rows)
RequestedCount == genInput.count

\* The record at position k is the unvaried conversion of usable row k.
IsDirectConversion(k) ==
    /\ freightOffers[k].objectType = ObjectType(genInput.kind)
    /\ freightOffers[k].line = UsableRows[k].line
    /\ freightOffers[k].variedAt = 0 - 1
    /\ freightOffers[k].variations = 0

\* C19: for N >= 1 usable rows and a count C <= N the generator returns
\* exactly C records, record i being the direct conversion of usable row i;
\* the C records come from C distinct rows and none is a variation.
C19_CountWithinRowsIsDirectConversion ==
    (GeneratorRan /\ Len(UsableRows) >= 1 /\ RequestedCount <= Len(UsableRows)) =>
        /\ Len(freightOffers) = RequestedCount
        /\ \A k \in 1..Len(freightOffers) : IsDirectConversion(k)
        /\ \A k, l \in 1..Len(freightOffers) :
               k # l => freightOffers[k].line # freightOffers[l].line

C19_Witness ==
    /\ GeneratorRan
    /\ RequestedCount = 2
    /\ Len(UsableRows) = 2
    /\ Len(genInput.rows) = 3
    /\ ~genInput.rows[2].usable
    /\ Len(freightOffers) = 2

\* C20: for N >= 1 usable rows and a count C > N the generator returns
\* exactly C records; the first N are the direct conversions of rows
\* 0..N-1, and the record at every index i >= N is the variation, made with
\* index i, of record i mod N, which is a direct conversion.
C20_CountBeyondRowsVariesDirectConversions ==
    (GeneratorRan /\ Len(UsableRows) >= 1 /\ RequestedCount > Len(UsableRows)) =>
        /\ Len(freightOffers) = RequestedCount
        /\ \A k \in 1..Len(UsableRows) : IsDirectConversion(k)
        /\ \A k \in (Len(UsableRows) + 1)..Len(freightOffers) :
               LET base == ((k - 1) % Len(UsableRows)) + 1
               IN  /\ base <= Len(UsableRows)
                   /\ freightOffers[k].variations = 1
                   /\ freightOffers[k].variedAt = k - 1
                   /\ freightOffers[k].line = UsableRows[base].line
                   /\ freightOffers[k].objectType = freightOffers[base].objectType

C20_Witness ==
    /\ GeneratorRan
    /\ Len(UsableRows) = 3
    /\ RequestedCount = 5
    /\ Len(freightOffers) = 5
    /\ freightOffers[4].variedAt = 3
    /\ freightOffers[5].line = UsableRows[2].line

\* ------------------------------------------------------------------------
\* Termination, ordering and call discipline
\* ------------------------------------------------------------------------
\* C26: the bulk route eventually answers every request with a non-empty
\* offers array, whatever maxConcurrent the caller supplied.
C26_BulkAnswersForEveryLimit ==
    (req.route = "bulk" /\ pc = "awaitBatch") ~> (pc = "responded")

\* The identifiers of the fetched list, in list order: the id where there is
\* one, else the publicOfferId, offers with neither left out.
ListedIdentifiers ==
    LET named == SelectSeq(delOffers, LAMBDA o : o.id # "" \/ o.publicOfferId # "")
    IN  [k \in 1..Len(named) |-> IF named[k].id # "" THEN named[k].id ELSE named[k].publicOfferId]

\* C27: delete calls are issued only on the delete-all route after the
\* confirmation check passed and the list call succeeded, they carry the
\* identifiers of the fetched list in list order, one call per listed offer at
\* most; and when the list call fails no delete call is issued and the
\* response is 500.
C27_DeleteCallsFollowConfirmedList ==
    /\ deleteLog # << >> =>
          /\ req.route = "deleteAll"
          /\ req.confirm = BooleanTrue
          /\ calls.list = 1
          /\ lastAnswer.kind = "ok"
          /\ calls.delete = Len(deleteLog)
          /\ Len(deleteLog) <= Len(ListedIdentifiers)
          /\ \A k \in 1..Len(deleteLog) : deleteLog[k] = ListedIdentifiers[k]
    /\ (req.route = "deleteAll" /\ lastAnswer.kind \notin {"none", "ok"}) =>
          /\ pc = "responded"
          /\ calls.delete = 0
          /\ deleteLog = << >>
          /\ response.status = 500

\* A confirmed run listed two offers and issued their two delete calls, the
\* second by publicOfferId.
C27_Witness ==
    /\ DeleteFinished
    /\ req.confirm = BooleanTrue
    /\ Len(delOffers) = 2
    /\ deleteLog = <<"A", "P">>

\* C29: in the aggregate of a bulk submission, createdOffers follow ascending
\* input position (hence the entries of chunk N precede those of chunk N+1 and
\* a chunk's entries are in input order, however its create calls completed),
\* and in failures no entry of a later chunk precedes one of an earlier chunk.
C29_ResultListsAreOrderedByChunk ==
    (BulkFinished /\ maxConcurrent > 0) =>
        /\ \A k, l \in 1..Len(BulkResult.createdOffers) :
               k < l => BulkResult.createdOffers[k].id < BulkResult.createdOffers[l].id
        /\ \A k, l \in 1..Len(BulkResult.failures) :
               k < l => ChunkOf(BulkResult.failures[k].index) <= ChunkOf(BulkResult.failures[l].index)

\* Two chunks of a three-item submission: in the first, item 1 failed for good
\* before item 0 did, and the second chunk's item failed after both.
C29_Witness ==
    /\ BulkFinished
    /\ req.route = "bulk"
    /\ maxConcurrent = 2
    /\ Len(offers) = 3
    /\ Len(BulkResult.failures) = 3
    /\ BulkResult.failures[1].index = 1
    /\ BulkResult.failures[2].index = 0
    /\ BulkResult.failures[3].index = 2

\* ------------------------------------------------------------------------
\* Auto-posting on the generate routes
\* ------------------------------------------------------------------------
StringFalse == [type |-> "string", repr |-> "false"]
BooleanFalse == [type |-> "boolean", repr |-> "false"]

\* A generate request was answered with its 200 envelope.
GenerateAnswered ==
    /\ req.route = "generate"
    /\ pc = "responded"
    /\ response.status = 200

AutoPostOmitted == req.bodyAutoPost = NoConfirm /\ req.queryAutoPost = NoConfirm
AutoPostSwitchedOff == req.bodyAutoPost = BooleanFalse \/ req.queryAutoPost = StringFalse

\* C25: auto-posting defaults to on. A generate request without autoPost is
\* answered with autoPost true and a timocomResults object, and with the
\* credentials configured every generated record got a create call; with
\* autoPost false in the body or 'false' in the query no call at all reaches
\* the external service at any time, timocomResults is null, and the generated
\* records are still returned.
C25_AutoPostDefaultsToOn ==
    /\ (GenerateAnswered /\ AutoPostOmitted) =>
          /\ response.body.autoPost
          /\ response.body.posted
          /\ response.body.timocomResults.total = NumCount(req.count)
          /\ ~AnyCredentialMissing =>
                /\ Len(offers) = NumCount(req.count)
                /\ \A t \in Items : issued[t] >= 1
                /\ calls.create >= Len(offers)
    /\ (req.route = "generate" /\ AutoPostSwitchedOff) =>
          /\ calls = NoCalls
          /\ \A t \in TaskIds : issued[t] = 0
          /\ InFlight = {}
          /\ pc \in {"responded", "exited"}
    /\ (GenerateAnswered /\ AutoPostSwitchedOff) =>
          /\ ~response.body.autoPost
          /\ ~response.body.posted
          /\ response.body.count = NumCount(req.count)
          /\ Len(response.body.data) = NumCount(req.count)

\* A request that omitted autoPost was answered after its records were
\* posted in bulk.
C25_Witness ==
    /\ GenerateAnswered
    /\ AutoPostOmitted
    /\ ~AnyCredentialMissing
    /\ Len(offers) = 2
    /\ calls.create >= 2
    /\ response.body.timocomResults.created = 2

\* A request with ?autoPost=false and no body flag was answered with the
\* generated records and without results.
C25_WitnessSwitchedOff ==
    /\ GenerateAnswered
    /\ req.bodyAutoPost = NoConfirm
    /\ req.queryAutoPost = StringFalse
    /\ Len(response.body.data) = 2

\* ------------------------------------------------------------------------
\* The records handed to the external service
\* ------------------------------------------------------------------------
\* C23: every offer record passed to a create call carries a customer
\* reference, on the bulk procedure (caller-supplied or generated records) and
\* on the single-create routes.
C23_EveryCreatedRecordHasCustomer ==
    /\ \A t \in TaskIds : issued[t] >= 1 => taskOffer[t].customer
    /\ (req.route = "create" /\ calls.create >= 1) => req.body.customer

\* ------------------------------------------------------------------------
\* Dates and determinism of the generators
\* ------------------------------------------------------------------------
\* The circumstances of the run that was made.
ThisRun ==
    [ kind |-> genInput.kind, at |-> genInput.at, zone |-> genInput.zone,
      tickAt |-> genInput.tickAt, rnd |-> genInput.rnd ]

ThisCsv == [readable |-> genInput.readable, rows |-> genInput.rows]

\* Two instants of one calendar day, on the machine's clock and in UTC alike.
SameCalendarDay(t1, t2, zone) ==
    /\ localDate(t1, zone) = localDate(t2, zone)
    /\ isoDate(t1) = isoDate(t2)

\* C21: a second run over the same CSV with the same count, started at any
\* instant of the same calendar day, returns the record list of the first.
C21_SameDaySameOutput ==
    GeneratorRan =>
        \A at2 \in 0..MaxClock, tickAt2 \in 1..Max(RequestedCount, 1) :
            SameCalendarDay(genInput.at, at2, genInput.zone) =>
                generateOffers([ThisRun EXCEPT !.at = at2, !.tickAt = tickAt2],
                               ThisCsv, RequestedCount) = freightOffers

\* The records of a run that are variations.
Variations == {k \in 1..Len(freightOffers) : freightOffers[k].variations >= 1}

\* The dates a record carries.
DatesOf(offer) ==
    {offer.loadingDate} \cup (IF offer.unloadingDate = NoDate THEN {} ELSE {offer.unloadingDate})

\* C22: every date of a variation record is on or after the day that follows
\* the calendar day on which the run started, and at most 31 days after it.
C22_VariationDatesWithin31Days ==
    GeneratorRan =>
        \A k \in Variations :
            \A d \in DatesOf(freightOffers[k]) :
                /\ d >= localDate(genInput.at, genInput.zone) + 1
                /\ d <= localDate(genInput.at, genInput.zone) + 31

\* ------------------------------------------------------------------------
\* Properties of the csv routes
\* ------------------------------------------------------------------------
\* An upload request with a file was answered.
UploadAnswered == pc = "responded" /\ req.route = "upload" /\ req.file.name # "none"

\* The uploaded file passes both content checks for the type it is sent as.
WellFormedUpload ==
    /\ req.kind \in Kinds
    /\ AtLeastTwoLines(req.file.content)
    /\ HasRequiredHeaders(req.file.content, req.kind)

OtherType(type) == IF type = "freight" THEN "vehicle" ELSE "freight"

\* The backup files of a type that hold the given content.
BackupsHolding(type, content) ==
    {n \in 1..MaxStamp : files[BackupName(StandardFilename(type), n)] = content}

UploadOverCanonicalNeverSucceeds ==
    (UploadAnswered /\ req.kind \in Kinds /\ before[Canonical(req.kind)] # Absent) =>
        response.status # 200

\* C28: an upload rejected with 400 leaves both canonical files with the
\* content they had when the request arrived.
C28_RejectedUploadLeavesCanonicalFiles ==
    (UploadAnswered /\ response.status = 400) =>
        \A type \in Kinds : files[Canonical(type)] = before[Canonical(type)]

\* A restore request was answered with 200.
RestoreSucceeded == pc = "responded" /\ req.route = "restore" /\ response.status = 200

\* The request before this restore was a well-formed upload of content B of
\* type T over a canonical file holding A, and the restore names the backup
\* that upload created.
RestoresBackupOfLastUpload ==
    /\ RestoreSucceeded
    /\ lastUpload.age = 1
    /\ lastUpload.type \in Kinds
    /\ AtLeastTwoLines(lastUpload.content)
    /\ HasRequiredHeaders(lastUpload.content, lastUpload.type)
    /\ lastUpload.previous # Absent
    /\ lastUpload.backup # NoName
    /\ req.filename = lastUpload.backup

\* The restore ran in the very millisecond the restored backup is named
\* after, so that its own backup took the name of the restored file.
RestoreCollides ==
    req.filename = BackupName(StandardFilename(TypeOfBackup(req.filename)), clockMs)

\* C30: a successful restore sets the canonical file of the backup's type to
\* the content the backup held and keeps the content it replaced in a backup;
\* and after upload A, upload B, restore(the backup created when B replaced
\* A) the canonical file holds A, a backup holds B and the canonical file of
\* the other type is unchanged. (Restores in the millisecond of the backup's
\* own name are left aside.)
C30_RestoreUndoesLastUpload ==
    /\ (RestoreSucceeded /\ ~RestoreCollides) =>
          LET type == TypeOfBackup(req.filename)
          IN  /\ files[Canonical(type)] = before[req.filename]
              /\ before[Canonical(type)] # Absent =>
                     BackupsHolding(type, before[Canonical(type)]) # {}
    /\ (RestoresBackupOfLastUpload /\ ~RestoreCollides) =>
          /\ files[Canonical(lastUpload.type)] = lastUpload.previous
          /\ BackupsHolding(lastUpload.type, lastUpload.content) # {}
          /\ files[Canonical(OtherType(lastUpload.type))]
                 = before[Canonical(OtherType(lastUpload.type))]

====
